---- MODULE Spec2Model ----
(***************************************************************************)
(* uol-simple-api-futebol: getJogos (src/src/index.ts) and the functions   *)
(* it is built from.                                                       *)
(*                                                                         *)
(* A JavaScript string is a sequence of characters and a character is a    *)
(* TLA+ string; an accented letter is written as one two-symbol token:     *)
(* "e^" (e circumflex), "a~" (a tilde), "e'" (e acute), "c," (c cedilla)   *)
(* and their capitals "E^", "A~", "E'", "C,".                              *)
(***************************************************************************)
EXTENDS Integers, Sequences, FiniteSets, TLC

\* undefined / null where the code expects a string
NULL == <<"undefined">>
\* the result of parseInt on a string with no leading digits
NaN == -1

---------------------------------------------------------------------------
(* String primitives of the JavaScript runtime                             *)

UpperChars == <<"A","B","C","D","E","F","G","H","I","J","K","L","M","N","O","P","Q","R","S","T","U","V","W","X","Y","Z","E^","A~","E'","C,">>
LowerChars == <<"a","b","c","d","e","f","g","h","i","j","k","l","m","n","o","p","q","r","s","t","u","v","w","x","y","z","e^","a~","e'","c,">>
AccentChars == <<"e^","a~","e'","c,","E^","A~","E'","C,">>
BaseChars == <<"e","a","e","c","E","A","E","C">>
DigitChars == <<"0","1","2","3","4","5","6","7","8","9">>
AsciiUpper == {"A","B","C","D","E","F","G","H","I","J","K","L","M","N","O","P","Q","R","S","T","U","V","W","X","Y","Z"}
AsciiLower == {"a","b","c","d","e","f","g","h","i","j","k","l","m","n","o","p","q","r","s","t","u","v","w","x","y","z"}

PosIn(c, t) == IF \E i \in 1..Len(t) : t[i] = c THEN CHOOSE i \in 1..Len(t) : t[i] = c ELSE 0

IsDigit(c) == PosIn(c, DigitChars) # 0
IsSpace(c) == c = " "
\* \w of a regular expression without the u flag: [A-Za-z0-9_]
IsWordChar(c) == c \in AsciiUpper \/ c \in AsciiLower \/ IsDigit(c) \/ c = "_"

ToLowerChar(c) == IF PosIn(c, UpperChars) # 0 THEN LowerChars[PosIn(c, UpperChars)] ELSE c
ToUpperChar(c) == IF PosIn(c, LowerChars) # 0 THEN UpperChars[PosIn(c, LowerChars)] ELSE c
\* c.normalize('NFD').replace(/[\u0300-\u036f]/g, '')
StripAccentChar(c) == IF PosIn(c, AccentChars) # 0 THEN BaseChars[PosIn(c, AccentChars)] ELSE c

ToLowerCase(s) == [i \in 1..Len(s) |-> ToLowerChar(s[i])]
ToUpperCase(s) == [i \in 1..Len(s) |-> ToUpperChar(s[i])]

\* s.indexOf(sub), 1-based; 0 when sub does not occur
IndexOf(s, sub) ==
  LET hits == {i \in 1..(Len(s) - Len(sub) + 1) :
                 \/ sub = <<>>
                 \/ (s[i] = sub[1] /\ SubSeq(s, i, i + Len(sub) - 1) = sub)}
  IN IF hits = {} THEN 0 ELSE CHOOSE i \in hits : \A j \in hits : i <= j

Includes(s, sub) == IndexOf(s, sub) # 0

\* s.replace(pat, rep) with a string pattern: the first occurrence only
ReplaceFirst(s, pat, rep) ==
  LET i == IndexOf(s, pat)
  IN IF i = 0 THEN s
     ELSE SubSeq(s, 1, i - 1) \o rep \o SubSeq(s, i + Len(pat), Len(s))

\* s.replace(/\s+/g, '')
RemoveWhitespace(s) == SelectSeq(s, LAMBDA c : ~IsSpace(c))

RECURSIVE TrimStart(_)
TrimStart(s) == IF s # <<>> /\ IsSpace(Head(s)) THEN TrimStart(Tail(s)) ELSE s
RECURSIVE TrimEnd(_)
TrimEnd(s) == IF s # <<>> /\ IsSpace(s[Len(s)]) THEN TrimEnd(SubSeq(s, 1, Len(s) - 1)) ELSE s
Trim(s) == TrimEnd(TrimStart(s))

\* the value of the leading run of digits of s, read from position i with acc so far
RECURSIVE DigitsFrom(_, _, _)
DigitsFrom(s, i, acc) ==
  IF i <= Len(s) /\ IsDigit(s[i]) THEN DigitsFrom(s, i + 1, acc * 10 + (PosIn(s[i], DigitChars) - 1)) ELSE acc
\* parseInt(s) for an unsigned decimal: leading whitespace skipped, NaN without a digit
ParseInt(s) ==
  LET t == TrimStart(s)
  IN IF t = <<>> \/ ~IsDigit(Head(t)) THEN NaN ELSE DigitsFrom(t, 1, 0)

\* [...new Set(xs)]: the first occurrence of each element, in order
RECURSIVE Dedupe(_)
Dedupe(xs) ==
  IF xs = <<>> THEN <<>>
  ELSE LET front == Dedupe(SubSeq(xs, 1, Len(xs) - 1))
           last == xs[Len(xs)]
       IN IF \E i \in 1..Len(front) : front[i] = last THEN front ELSE Append(front, last)

\* variant that collects into an array: push of each element of xs
AddAllComPush(acc, xs) == acc \o xs

\* Set.add of each element of xs, in order, to the insertion-ordered set acc
AddAll(acc, xs) == Dedupe(acc \o xs)

RECURSIVE Flatten(_)
Flatten(xss) == IF xss = <<>> THEN <<>> ELSE Head(xss) \o Flatten(Tail(xss))

Range(xs) == {xs[i] : i \in 1..Len(xs)}

---------------------------------------------------------------------------
(* prepareChannelName (index.ts 458-531)                                   *)

sGLOBO == <<"G","L","O","B","O">>  \* GLOBO
sGloboPrefix == <<"G","l","o","b","o"," ">>  \* Globo 
sPREMIERE_FC == <<"P","R","E","M","I","E","R","E"," ","F","C">>  \* PREMIERE FC
sCAZE_TV == <<"C","A","Z","E'"," ","T","V">>  \* CAZ(E') TV
sCazeTV == <<"C","a","z","e'","T","V">>  \* Caz(e')TV
sRECORD == <<"R","E","C","O","R","D">>  \* RECORD
sRecord == <<"R","e","c","o","r","d">>  \* Record
sDISNEY_PREMIUM == <<"D","I","S","N","E","Y","+"," ","P","R","E","M","I","U","M">>  \* DISNEY+ PREMIUM
sDISNEY == <<"D","I","S","N","E","Y","+">>  \* DISNEY+
sDisney == <<"D","i","s","n","e","y","+">>  \* Disney+
sPREMIERE == <<"P","R","E","M","I","E","R","E">>  \* PREMIERE
sPremiere == <<"P","r","e","m","i","e","r","e">>  \* Premiere
sSPORTV == <<"S","P","O","R","T","V">>  \* SPORTV
sSporTV == <<"S","p","o","r","T","V">>  \* SporTV
sGlobo == <<"G","l","o","b","o">>  \* Globo

\* processedChannel.match(/\b([A-Z]{2})\b/g): every run of exactly two capital
\* ASCII letters that has no word character on either side, left to right
RegionCodes(s) ==
  LET at == {i \in 1..(Len(s) - 1) :
               /\ s[i] \in AsciiUpper /\ s[i + 1] \in AsciiUpper
               /\ (i = 1 \/ ~IsWordChar(s[i - 1]))
               /\ (i + 1 = Len(s) \/ ~IsWordChar(s[i + 2]))}
      ord == CHOOSE f \in [1..Cardinality(at) -> at] :
               \A a, b \in 1..Cardinality(at) : a < b => f[a] < f[b]
  IN [k \in 1..Cardinality(at) |-> SubSeq(s, ord[k], ord[k] + 1)]

\* the names one entry of the raw list contributes (the body of the forEach)
PrepareOne(channel) ==
  IF channel = NULL \/ channel = <<>> THEN <<>>
  ELSE LET processedChannel == Trim(channel)
           upperChannel == ToUpperCase(processedChannel)
           estadosUnicos == Dedupe(RegionCodes(processedChannel))
       IN IF Includes(upperChannel, sGLOBO) /\ Includes(processedChannel, <<",">>)
             /\ estadosUnicos # <<>>
          THEN [k \in 1..Len(estadosUnicos) |-> sGloboPrefix \o estadosUnicos[k]]
          ELSE IF upperChannel = sPREMIERE_FC THEN <<sPremiere>>
          ELSE IF upperChannel = sCAZE_TV THEN <<sCazeTV>>
          ELSE IF upperChannel = sRECORD THEN <<sRecord>>
          ELSE IF Includes(upperChannel, sDISNEY_PREMIUM) THEN <<sDisney>>
          ELSE IF Includes(upperChannel, sDISNEY) THEN <<sDisney>>
          ELSE IF Includes(upperChannel, sPREMIERE)
               THEN <<ReplaceFirst(processedChannel, sPREMIERE, sPremiere)>>
          ELSE IF Includes(upperChannel, sSPORTV) THEN <<sSporTV>>
          ELSE IF upperChannel = sGLOBO THEN <<sGlobo>>
          ELSE <<processedChannel>>

PrepareChannelName(channels) ==
  Dedupe(Flatten([k \in 1..Len(channels) |-> PrepareOne(channels[k])]))

---------------------------------------------------------------------------
(* removeAcentos, normalizeTimeName (index.ts 454-456, 533-554)            *)

sW == <<" ","W">>  \*  W
sF == <<" ","(","F",")">>  \*  (F)
sParisSaintGermain == <<"P","a","r","i","s"," ","S","a","i","n","t"," ","G","e","r","m","a","i","n">>  \* Paris Saint Germain

RemoveAcentos(str) == [i \in 1..Len(str) |-> StripAccentChar(str[i])]

\* the chain of replace calls of normalizeTimeName, each on the first occurrence
AliasTable == <<
  \* ' W' -> ' (F)'
  << sW,
     sF >>,
  \* 'Paris Saint Germain' -> 'PSG'
  << sParisSaintGermain,
     <<"P","S","G">> >>,
  \* 'Slavia Praha VFL' -> 'Slavia Praha'
  << <<"S","l","a","v","i","a"," ","P","r","a","h","a"," ","V","F","L">>,
     <<"S","l","a","v","i","a"," ","P","r","a","h","a">> >>,
  \* 'Slavia Praha Vfl' -> 'Slavia Praha'
  << <<"S","l","a","v","i","a"," ","P","r","a","h","a"," ","V","f","l">>,
     <<"S","l","a","v","i","a"," ","P","r","a","h","a">> >>,
  \* 'Galatasaray VFL' -> 'Galatasaray'
  << <<"G","a","l","a","t","a","s","a","r","a","y"," ","V","F","L">>,
     <<"G","a","l","a","t","a","s","a","r","a","y">> >>,
  \* 'Galatasaray Vfl' -> 'Galatasaray'
  << <<"G","a","l","a","t","a","s","a","r","a","y"," ","V","f","l">>,
     <<"G","a","l","a","t","a","s","a","r","a","y">> >>,
  \* 'Birmingham VFL' -> 'Galatasaray'
  << <<"B","i","r","m","i","n","g","h","a","m"," ","V","F","L">>,
     <<"G","a","l","a","t","a","s","a","r","a","y">> >>,
  \* 'Birmingham Vfl' -> 'Birmingham'
  << <<"B","i","r","m","i","n","g","h","a","m"," ","V","f","l">>,
     <<"B","i","r","m","i","n","g","h","a","m">> >>,
  \* ' U20' -> ' Sub-20'
  << <<" ","U","2","0">>,
     <<" ","S","u","b","-","2","0">> >>,
  \* 'Am(e')rica Mineiro' -> 'Am(e')rica-MG'
  << <<"A","m","e'","r","i","c","a"," ","M","i","n","e","i","r","o">>,
     <<"A","m","e'","r","i","c","a","-","M","G">> >> >>

RECURSIVE ApplyAliases(_, _)
ApplyAliases(nome, k) ==
  IF k > Len(AliasTable) THEN nome
  ELSE ApplyAliases(ReplaceFirst(nome, AliasTable[k][1], AliasTable[k][2]), k + 1)

\* split(''), strip the accent of every character but the dashes, join('')
NormalizeTimeName(nome) ==
  LET aliased == ApplyAliases(nome, 1)
  IN [i \in 1..Len(aliased) |->
        IF aliased[i] \in {"-", "_"} THEN aliased[i] ELSE StripAccentChar(aliased[i])]

---------------------------------------------------------------------------
(* buscarCanaisParaJogo (index.ts 225-329)                                 *)
(* A Match is a record [campeonato, hora, nomeTimes, canais, date]; the    *)
(* fields estadio, times and escudos, which no modelled operation reads,   *)
(* are left out.  A result is [threw |-> BOOLEAN, canais |-> names].       *)

\* const normalizarHora = (hora) => hora.replace(/\s+/g, '').toLowerCase()
NormalizarHora(hora) == ToLowerCase(RemoveWhitespace(hora))

\* parseInt(hora.replace('h', ''))
HoraInt(hora) == ParseInt(ReplaceFirst(hora, <<"h">>, <<>>))

\* matchHora: equal strings, or |parseInt(a without its h) - parseInt(b without its h)| <= 1
MatchHora(horaPool, horaNormalizada) ==
  \/ horaPool = horaNormalizada
  \/ LET a == HoraInt(horaPool)
         b == HoraInt(horaNormalizada)
     IN a # NaN /\ b # NaN /\ a - b <= 1 /\ b - a <= 1

\* matchHome / matchAway: either name contains the other
MatchNome(nomePool, nomeNormalizado) ==
  Includes(nomePool, nomeNormalizado) \/ Includes(nomeNormalizado, nomePool)

\* String(x || '')
StringOrEmpty(x) == IF x = NULL THEN <<>> ELSE x

HomeNormalizado(jogo) == ToLowerCase(NormalizeTimeName(jogo.nomeTimes[1]))
AwayNormalizado(jogo) == ToLowerCase(NormalizeTimeName(jogo.nomeTimes[2]))
HoraNormalizada(jogo) == NormalizarHora(jogo.hora)

\* what lines 229-234 compute once from the fixture, before the loops
Normalizado(jogo) ==
  [home |-> HomeNormalizado(jogo), away |-> AwayNormalizado(jogo), hora |-> HoraNormalizada(jogo)]

\* the names of a UOL record as compared: lower-cased, accents removed
NomeUOL(nome) == RemoveAcentos(ToLowerCase(StringOrEmpty(nome)))
\* the names of a Futebol na TV record as compared: normalizeTimeName first
NomeFTV(nome) == RemoveAcentos(ToLowerCase(NormalizeTimeName(nome)))

\* a record the forEach callback leaves by an early return
SkipsUOL(jogoUOL) ==
  \/ Len(jogoUOL.nomeTimes) < 2
  \/ StringOrEmpty(jogoUOL.nomeTimes[1]) = <<>>
  \/ StringOrEmpty(jogoUOL.nomeTimes[2]) = <<>>

\* a record on which the callback throws a TypeError
ThrowsUOL(jogoUOL) == ~SkipsUOL(jogoUOL) /\ jogoUOL.hora = NULL

\* (matchHome && matchAway) && matchHora in the UOL passes
CasaUOL(norm, jogoUOL) ==
  /\ ~SkipsUOL(jogoUOL)
  /\ MatchNome(NomeUOL(jogoUOL.nomeTimes[1]), norm.home)
  /\ MatchNome(NomeUOL(jogoUOL.nomeTimes[2]), norm.away)
  /\ MatchHora(NormalizarHora(jogoUOL.hora), norm.hora)

MatchesUOL(jogo, jogoUOL) == CasaUOL(Normalizado(jogo), jogoUOL)

ThrowsFTV(jogoFTV) ==
  /\ Len(jogoFTV.nomeTimes) >= 2
  /\ \/ jogoFTV.nomeTimes[1] = NULL
     \/ jogoFTV.nomeTimes[2] = NULL
     \/ (jogoFTV.nomeTimes[1] # <<>> /\ jogoFTV.nomeTimes[2] # <<>> /\ jogoFTV.hora = NULL)

SkipsFTV(jogoFTV) ==
  \/ Len(jogoFTV.nomeTimes) < 2
  \/ jogoFTV.nomeTimes[1] = <<>>
  \/ jogoFTV.nomeTimes[2] = <<>>

\* (matchHome && matchAway) && matchHora in the Futebol na TV pass
CasaFTV(norm, jogoFTV) ==
  /\ ~SkipsFTV(jogoFTV)
  /\ MatchNome(NomeFTV(jogoFTV.nomeTimes[1]), norm.home)
  /\ MatchNome(NomeFTV(jogoFTV.nomeTimes[2]), norm.away)
  /\ MatchHora(NormalizarHora(jogoFTV.hora), norm.hora)

MatchesFTV(jogo, jogoFTV) == CasaFTV(Normalizado(jogo), jogoFTV)

\* what one record of a pool leaves of the set accumulated so far
AposRegistro(res, lancou, casou, canais) ==
  IF lancou THEN [threw |-> TRUE, canais |-> <<>>]
  ELSE IF casou THEN [threw |-> FALSE, canais |-> AddAll(res.canais, PrepareChannelName(canais))]
  ELSE res

\* one forEach over poolUOL, from the set accumulated so far
RECURSIVE ScanUOL(_, _, _)
ScanUOL(res, norm, poolUOL) ==
  IF res.threw \/ poolUOL = <<>> THEN res
  ELSE ScanUOL(AposRegistro(res, ThrowsUOL(Head(poolUOL)), CasaUOL(norm, Head(poolUOL)),
                            Head(poolUOL).canais),
               norm, Tail(poolUOL))

\* the forEach over poolFTV
RECURSIVE ScanFTV(_, _, _)
ScanFTV(res, norm, poolFTV) ==
  IF res.threw \/ poolFTV = <<>> THEN res
  ELSE ScanFTV(AposRegistro(res, ThrowsFTV(Head(poolFTV)), CasaFTV(norm, Head(poolFTV)),
                            Head(poolFTV).canais),
               norm, Tail(poolFTV))

\* the three passes from the fixture's normalized names and time
TresPasses(norm, poolUOL, poolFTV) ==
  ScanUOL(ScanFTV(ScanUOL([threw |-> FALSE, canais |-> <<>>], norm, poolUOL),
                  norm, poolFTV),
          norm, poolUOL)

\* variant of buscarCanaisParaJogo that reads the UOL pool only
BuscarSoNoUOL(jogo, poolUOL, poolFTV) ==
  ScanUOL([threw |-> FALSE, canais |-> <<>>], Normalizado(jogo), poolUOL)

\* UOL, then Futebol na TV, then UOL a second time; Array.from(canais)
BuscarCanaisParaJogo(jogo, poolUOL, poolFTV) == TresPasses(Normalizado(jogo), poolUOL, poolFTV)
---------------------------------------------------------------------------
(* Dates: getDataAtualFormatada, parseDataHoraBR, ordenarPorData           *)
(* (index.ts 30-54).  A Date is [tipo, ano, mes, dia, h, min] in local     *)
(* time, mes counted from 1; tipo is "Date" for a Date object, "string"    *)
(* for the ISO string JSON.stringify turns it into, "Invalid" for an       *)
(* Invalid Date.                                                           *)

RECURSIVE NumToStr(_)
NumToStr(n) == IF n < 10 THEN <<DigitChars[n + 1]>> ELSE Append(NumToStr(n \div 10), DigitChars[(n % 10) + 1])

\* String(n).padStart(2, '0')
Pad2(n) == IF n < 10 THEN <<"0">> \o NumToStr(n) ELSE NumToStr(n)

InvalidDate == [tipo |-> "Invalid", ano |-> 0, mes |-> 0, dia |-> 0, h |-> 0, min |-> 0]

\* `${dia}-${mes}-${ano}` of the local fields of a Date
FormatDiaBR(d) ==
  IF d.tipo = "Invalid" THEN <<"N","a","N","-","N","a","N","-","N","a","N">>
  ELSE Pad2(d.dia) \o <<"-">> \o Pad2(d.mes) \o <<"-">> \o NumToStr(d.ano)

\* `${horas}h${minutos}` of the local fields of a Date
FormatHoraBR(d) ==
  IF d.tipo = "Invalid" THEN <<"N","a","N","h","N","a","N">>
  ELSE Pad2(d.h) \o <<"h">> \o Pad2(d.min)

\* str.split("-")
RECURSIVE SplitDash(_)
SplitDash(s) ==
  LET i == IndexOf(s, <<"-">>)
  IN IF i = 0 THEN <<s>> ELSE <<SubSeq(s, 1, i - 1)>> \o SplitDash(SubSeq(s, i + 1, Len(s)))

AllDigits(s) == \A i \in 1..Len(s) : IsDigit(s[i])

\* Number(s) of a split part: 0 for the empty string, NaN unless all digits
ToNumber(s) == IF s = <<>> THEN 0 ELSE IF AllDigits(s) THEN DigitsFrom(s, 1, 0) ELSE NaN

IsLeap(ano) == (ano % 4 = 0 /\ ano % 100 # 0) \/ ano % 400 = 0
DaysInMonth(ano, mes) ==
  IF mes = 2 THEN (IF IsLeap(ano) THEN 29 ELSE 28)
  ELSE IF mes \in {4, 6, 9, 11} THEN 30 ELSE 31

\* days past the end of a month carry into the next month, months past 12 into the year
RECURSIVE CarryDays(_, _, _)
CarryDays(ano, mes, diaDoMes) ==
  IF mes > 12 THEN CarryDays(ano + 1, mes - 12, diaDoMes)
  ELSE IF diaDoMes > DaysInMonth(ano, mes) THEN CarryDays(ano, mes + 1, diaDoMes - DaysInMonth(ano, mes))
  ELSE <<ano, mes, diaDoMes>>

\* new Date(ano, mesIndex, dia, horas, minutos) for non-negative arguments
NewDate(ano, mesIndex, diaDoMes, horas, minutos) ==
  IF NaN \in {ano, mesIndex, diaDoMes, horas, minutos} \/ diaDoMes < 1 THEN InvalidDate
  ELSE LET hTotal == horas + (minutos \div 60)
           ymd == CarryDays(ano, mesIndex + 1, diaDoMes + (hTotal \div 24))
       IN [tipo |-> "Date", ano |-> ymd[1], mes |-> ymd[2], dia |-> ymd[3],
           h |-> hTotal % 24, min |-> minutos % 60]

\* horaStr.match(/^(\d{1,2})h(\d{1,2})?$/i): <<hours digits, minutes digits>>, or <<>> for no match
HoraMatch(horaStr) ==
  LET i == IndexOf(ToLowerCase(horaStr), <<"h">>)
      horas == SubSeq(horaStr, 1, i - 1)
      minutos == SubSeq(horaStr, i + 1, Len(horaStr))
  IN IF horaStr # NULL /\ i \in {2, 3} /\ AllDigits(horas) /\ Len(minutos) <= 2 /\ AllDigits(minutos)
     THEN <<horas, minutos>> ELSE <<>>

\* variant that silently takes midnight for an hour string of another shape
ParseDataHoraBRPadrao(dataStr, horaStr) ==
  LET partes == SplitDash(dataStr)
      num(k) == IF k <= Len(partes) THEN ToNumber(partes[k]) ELSE NaN
      horaMatch == HoraMatch(horaStr)
  IN [threw |-> FALSE,
      date |-> NewDate(num(3), IF num(2) = NaN THEN NaN ELSE num(2) - 1, num(1),
                       IF horaMatch = <<>> THEN 0 ELSE DigitsFrom(horaMatch[1], 1, 0),
                       IF horaMatch = <<>> \/ horaMatch[2] = <<>> THEN 0 ELSE DigitsFrom(horaMatch[2], 1, 0))]

\* [threw |-> the Error was thrown, date |-> the Date returned]
ParseDataHoraBR(dataStr, horaStr) ==
  LET partes == SplitDash(dataStr)
      num(k) == IF k <= Len(partes) THEN ToNumber(partes[k]) ELSE NaN
      horaMatch == HoraMatch(horaStr)
  IN IF horaMatch = <<>> THEN [threw |-> TRUE, date |-> InvalidDate]
     ELSE [threw |-> FALSE,
           date |-> NewDate(num(3), IF num(2) = NaN THEN NaN ELSE num(2) - 1, num(1),
                            DigitsFrom(horaMatch[1], 1, 0),
                            IF horaMatch[2] = <<>> THEN 0 ELSE DigitsFrom(horaMatch[2], 1, 0))]

\* new Date(x).getTime(): a number that orders valid dates as their instants do
GetTime(d) == ((((d.ano * 12 + d.mes) * 31 + d.dia) * 24 + d.h) * 60) + d.min

\* the comparator of ordenarPorData
CompareDate(a, b) == GetTime(a.date) - GetTime(b.date)

\* Array.prototype.sort with that comparator: stable, ascending
RECURSIVE InsertSorted(_, _)
InsertSorted(sorted, jogo) ==
  IF sorted = <<>> THEN <<jogo>>
  ELSE IF CompareDate(sorted[Len(sorted)], jogo) <= 0 THEN Append(sorted, jogo)
  ELSE Append(InsertSorted(SubSeq(sorted, 1, Len(sorted) - 1), jogo), sorted[Len(sorted)])

\* variant of ordenarPorData that leaves the list as the loop built it
SemOrdenar(jogos) == jogos

RECURSIVE OrdenarPorData(_)
OrdenarPorData(jogos) ==
  IF jogos = <<>> THEN <<>>
  ELSE InsertSorted(OrdenarPorData(SubSeq(jogos, 1, Len(jogos) - 1)), jogos[Len(jogos)])

---------------------------------------------------------------------------
(* The fixtures of the API: deveIncluirJogo, aconteceNaData,               *)
(* converterAPIParaMatch (index.ts 117-219).  A fixture record is          *)
(* [date, home, away, league], date a Date (tipo "Missing" when the field  *)
(* is absent), home and away the team names (NULL when absent), league     *)
(* [name, country, id].                                                    *)

LeagueIds == {71, 72, 2, 525, 140, 61, 40, 408}

\* variant of deveIncluirJogo that lets every league through
IncluirQualquerLiga(fixtureData) == fixtureData.league.id \in Int

DeveIncluirJogo(fixtureData) ==
  fixtureData.league.country = "Brazil" \/ fixtureData.league.id \in LeagueIds

AconteceNaData(fixtureData, diaFormatado) ==
  /\ fixtureData.date.tipo # "Missing"
  /\ FormatDiaBR(fixtureData.date) = diaFormatado

\* the Match, or <<>> for null
ConverterAPIParaMatch(fixtureData, diaFormatado) ==
  IF StringOrEmpty(fixtureData.home) = <<>> \/ StringOrEmpty(fixtureData.away) = <<>> THEN <<>>
  ELSE IF fixtureData.date.tipo = "Missing" THEN <<>>
  ELSE LET horaBR == FormatHoraBR(fixtureData.date)
           parsed == ParseDataHoraBR(FormatDiaBR(fixtureData.date), horaBR)
       IN IF parsed.threw THEN <<>>
          ELSE << [campeonato |-> fixtureData.league.name,
                   hora |-> horaBR,
                   nomeTimes |-> <<ReplaceFirst(fixtureData.home, sW, sF),
                                   ReplaceFirst(fixtureData.away, sW, sF)>>,
                   canais |-> <<>>,
                   date |-> parsed.date] >>

---------------------------------------------------------------------------
(* The channel-precedence filter of getJogos (index.ts 416-429)            *)

\* /^Premiere\s+\d+$/i
IsPremiereComNumero(c) ==
  LET resto == SubSeq(c, Len(sPremiere) + 1, Len(c))
      digitos == TrimStart(resto)
  IN /\ Len(c) >= Len(sPremiere)
     /\ ToLowerCase(SubSeq(c, 1, Len(sPremiere))) = ToLowerCase(sPremiere)
     /\ Len(digitos) < Len(resto)
     /\ digitos # <<>>
     /\ AllDigits(digitos)

\* /^Premiere\s*$/i
IsPremiereSemNumero(c) ==
  /\ Len(c) >= Len(sPremiere)
  /\ ToLowerCase(SubSeq(c, 1, Len(sPremiere))) = ToLowerCase(sPremiere)
  /\ TrimStart(SubSeq(c, Len(sPremiere) + 1, Len(c))) = <<>>

\* variant of the filter that, once a numbered feed is known, drops every Premiere entry
FiltrarPremiereTodos(canais) ==
  IF \E i \in 1..Len(canais) : IsPremiereComNumero(canais[i])
  THEN SelectSeq(canais, LAMBDA c : ~Includes(ToLowerCase(c), ToLowerCase(sPremiere)))
  ELSE canais

FiltrarPremiere(canais) ==
  IF \E i \in 1..Len(canais) : IsPremiereComNumero(canais[i])
  THEN SelectSeq(canais, LAMBDA c : ~IsPremiereSemNumero(c))
  ELSE canais

---------------------------------------------------------------------------
(* Steps 5 to 7 of getJogos (index.ts 407-444): convert every filtered     *)
(* fixture, attach its channels, keep it when it has any, sort.            *)

\* variant of the admission test that keeps a fixture whatever its channels
ManterSempre(jogo, allCanais) == << [jogo EXCEPT !.canais = allCanais] >>

\* jogo.canais = allCanais; if (allCanais.length > 0) jogos.push(jogo)
ManterComCanais(jogo, allCanais) ==
  IF allCanais = <<>> THEN <<>> ELSE << [jogo EXCEPT !.canais = allCanais] >>

\* what the loop does with the result of buscarCanaisParaJogo; a throw is caught
AposBuscar(jogo, res) ==
  IF res.threw THEN <<>> ELSE ManterComCanais(jogo, FiltrarPremiere(res.canais))

\* if (jogo) { ... } for the value converterAPIParaMatch returned
AposConverter(convertido, poolUOL, poolFTV) ==
  IF convertido = <<>> THEN <<>>
  ELSE AposBuscar(convertido[1], BuscarCanaisParaJogo(convertido[1], poolUOL, poolFTV))

\* the body of the for loop: what one fixture appends to jogos
ProcessarFixture(fixture, diaFormatado, poolUOL, poolFTV) ==
  AposConverter(ConverterAPIParaMatch(fixture, diaFormatado), poolUOL, poolFTV)

MontarJogos(fixturesFiltrados, diaFormatado, poolUOL, poolFTV) ==
  OrdenarPorData(Flatten([k \in 1..Len(fixturesFiltrados) |->
     ProcessarFixture(fixturesFiltrados[k], diaFormatado, poolUOL, poolFTV)]))

\* variant without the date re-check: fixtures.filter(deveIncluirJogo)
FiltrarSoPorLiga(lista, diaFormatado) == SelectSeq(lista, LAMBDA f : DeveIncluirJogo(f))

\* fixtures.filter(aconteceNaData).filter(deveIncluirJogo)
FiltrarFixtures(lista, diaFormatado) ==
  SelectSeq(SelectSeq(lista, LAMBDA f : AconteceNaData(f, diaFormatado)),
            LAMBDA f : DeveIncluirJogo(f))

---------------------------------------------------------------------------
(* The cache file: carregarCache, salvarCache (index.ts 56-83).  The file  *)
(* is [ok, data]: ok is FALSE when it cannot be read or parsed, data maps  *)
(* a date key to the list stored under it (no key: no file, or "{}").      *)

EmptyCache == [k \in {} |-> <<>>]

\* JSON.parse(JSON.stringify(jogos)): a Date comes back as its ISO string
JsonList(jogos) ==
  [k \in 1..Len(jogos) |-> [jogos[k] EXCEPT !.date.tipo = IF @ = "Date" THEN "string" ELSE @]]

CarregarCache(arquivo) == IF arquivo.ok THEN arquivo.data ELSE EmptyCache

\* the file after a writeFileSync that succeeded
ArquivoGravado(obj) == [ok |-> TRUE, data |-> [k \in DOMAIN obj |-> JsonList(obj[k])]]

\* cache[diaFormatado] = jogos
CacheCom(obj, diaFormatado, jogos) ==
  [k \in DOMAIN obj \cup {diaFormatado} |-> IF k = diaFormatado THEN jogos ELSE obj[k]]

\* variant of the cache check that takes an empty stored list for a miss
CacheHitSoPreenchido(obj, diaFormatado, disable) ==
  diaFormatado \in DOMAIN obj /\ obj[diaFormatado] # <<>> /\ ~disable

\* cache[diaFormatado] && process.env.DISABLE_CACHE !== 'true' (an array is truthy, even empty)
CacheHit(obj, diaFormatado, disable) == diaFormatado \in DOMAIN obj /\ ~disable

\* /^\d{2}-\d{2}-\d{4}$/.test(dia) for a string dia
DiaValido(d) ==
  /\ d # NULL
  /\ Len(d) = 10
  /\ \A i \in {1, 2, 4, 5, 7, 8, 9, 10} : IsDigit(d[i])
  /\ d[3] = "-" /\ d[6] = "-"

---------------------------------------------------------------------------
(* The inputs the collaborators can deliver                                *)

\* the longest fixtures list the API returns
MaxFixtures == 2

Procs == {1, 2}

Dia1 == [tipo |-> "Date", ano |-> 2026, mes |-> 11, dia |-> 5, h |-> 0, min |-> 0]
Dia2 == [Dia1 EXCEPT !.dia = 6]
As(d, horas, minutos) == [d EXCEPT !.h = horas, !.min = minutos]

\* the date keys "05-11-2026" and "06-11-2026"; the clock reads the first
sDia1 == FormatDiaBR(Dia1)
sDia2 == FormatDiaBR(Dia2)
Hoje == sDia1

nSantos == <<"S","a","n","t","o","s">>  \* Santos
nGremio == <<"G","r","e^","m","i","o">>  \* Gr(e^)mio
nCorinthians == <<"C","o","r","i","n","t","h","i","a","n","s">>  \* Corinthians
h21h30 == <<"2","1","h","3","0">>  \* 21h30
h19h00 == <<"1","9","h","0","0">>  \* 19h00
cESPN == <<"E","S","P","N">>  \* ESPN

SerieA == [name |-> "Serie A", country |-> "Brazil", id |-> 71]
fSantosGremio == [date |-> As(Dia1, 21, 30), home |-> nSantos, away |-> nGremio, league |-> SerieA]
fSaoPauloCorinthians == [date |-> As(Dia1, 19, 0), home |-> <<"S","a~","o"," ","P","a","u","l","o">>, away |-> nCorinthians, league |-> [name |-> "Copa do Brasil", country |-> "Brazil", id |-> 73]]
fPSGLyon == [date |-> As(Dia1, 21, 30), home |-> sParisSaintGermain, away |-> <<"L","y","o","n">>, league |-> [name |-> "Ligue 1", country |-> "France", id |-> 61]]
fArsenalChelsea == [date |-> As(Dia1, 15, 0), home |-> <<"A","r","s","e","n","a","l">>, away |-> <<"C","h","e","l","s","e","a">>, league |-> [name |-> "Premier League", country |-> "England", id |-> 39]]
fFlamengoVasco == [date |-> As(Dia2, 21, 30), home |-> <<"F","l","a","m","e","n","g","o">>, away |-> <<"V","a","s","c","o">>, league |-> SerieA]
fSemVisitante == [date |-> As(Dia1, 19, 0), home |-> nSantos, away |-> NULL, league |-> SerieA]

FixtureCatalog == {fSantosGremio, fSaoPauloCorinthians, fPSGLyon, fArsenalChelsea,
                   fFlamengoVasco, fSemVisitante}

\* the lists the API can return: up to MaxFixtures records, none listed twice
ApiResponses ==
  UNION {{r \in [1..n -> FixtureCatalog] : \A i, j \in 1..n : i # j => r[i] # r[j]} :
         n \in 0..MaxFixtures}

\* records of the scrapers
Scraped(home, away, hora, canais) ==
  [campeonato |-> "scraped", hora |-> hora, nomeTimes |-> <<home, away>>, canais |-> canais,
   date |-> ParseDataHoraBR(sDia1, hora).date]

uSantosGremio == Scraped(nSantos, nGremio, h21h30, <<sSPORTV, sPREMIERE_FC>>)
uSaoPauloCorinthians == Scraped(<<"S","a~","o"," ","P","a","u","l","o">>, nCorinthians, h19h00, <<sGLOBO>>)
uArsenalChelsea == Scraped(<<"A","r","s","e","n","a","l">>, <<"C","h","e","l","s","e","a">>, <<"1","5","h","0","0">>, <<cESPN>>)
uSemMandante == Scraped(NULL, nGremio, h21h30, <<cESPN>>)
tSantosGremio == Scraped(nSantos, <<"G","r","e","m","i","o">>, h21h30, <<sPREMIERE_FC, <<"P","R","E","M","I","E","R","E"," ","2">>>>)
tPSGLyon == Scraped(sParisSaintGermain, <<"L","y","o","n">>, h21h30, <<sDISNEY_PREMIUM>>)
tSaoPauloFC == Scraped(<<"S","a","o"," ","P","a","u","l","o"," ","F","C">>, nCorinthians, <<"2","1","h","0","0">>, <<sSPORTV>>)

UOLPools == {<<uSantosGremio, uSaoPauloCorinthians, uArsenalChelsea>>, <<uSemMandante, uSaoPauloCorinthians>>}
FTVPools == {<<tSantosGremio, tPSGLyon, tSaoPauloFC>>}

DiaInputs == {sDia1, NULL, <<"5","-","1","1">>}

InitialFiles == {[ok |-> TRUE, data |-> EmptyCache], [ok |-> FALSE, data |-> EmptyCache],
                 [ok |-> TRUE, data |-> CacheCom(EmptyCache, sDia2, <<>>)]}

---------------------------------------------------------------------------
(* getJogos (index.ts 331-452) as a state machine.  A call runs in steps   *)
(* that end at its awaits: the cache check, the fixtures fetch, the UOL    *)
(* scrape, and the Futebol na TV scrape with everything after it.          *)

VARIABLES
  file,              \* the cache file on disk
  disableCache,      \* process.env.DISABLE_CACHE === 'true'
  pc,                \* where each call stands: "off", "idle", "fetchAPI", "fetchUOL", "fetchFTV", "done"
  dia,               \* diaFormatado
  cache,             \* the object carregarCache returned, as the call changes it
  loaded,            \* history: the object carregarCache returned
  fixtures,          \* the list buscarJogosAPI resolved to
  fixturesFiltrados,
  jogosUOL,
  jogosFutebolNaTV,
  ret,               \* the list the call resolved to
  outcome,           \* "running", "returned" or "threw"
  calls,             \* history: the collaborators the call has invoked
  failed,            \* history: the collaborators that failed during the call
  wrote,             \* history: the call invoked salvarCache
  bPc,               \* a direct application of buscarCanaisParaJogo: "off", "ready" or "done"
  bJogo,             \* its arguments: jogo, jogosUOL, jogosFutebolNaTV
  bJogosUOL,
  bJogosFutebolNaTV,
  bRet,              \* what it returned
  fn,                \* a direct application of one other function: its name, "" for none
  fnPc,              \* "off", "ready" or "done"
  fnArgs,            \* its arguments
  fnRet              \* what it returned

getJogosVars == <<file, disableCache, pc, dia, cache, loaded, fixtures, fixturesFiltrados,
                  jogosUOL, jogosFutebolNaTV, ret, outcome, calls, failed, wrote>>
buscarVars == <<bPc, bJogo, bJogosUOL, bJogosFutebolNaTV, bRet>>
fnVars == <<fn, fnPc, fnArgs, fnRet>>
vars == <<getJogosVars, buscarVars, fnVars>>

Blank(v) == [p \in Procs |-> v]

InitLocals ==
  /\ dia = Blank(<<>>)
  /\ cache = Blank(EmptyCache)
  /\ loaded = Blank(EmptyCache)
  /\ fixtures = Blank(<<>>)
  /\ fixturesFiltrados = Blank(<<>>)
  /\ jogosUOL = Blank(<<>>)
  /\ jogosFutebolNaTV = Blank(<<>>)
  /\ ret = Blank(<<>>)
  /\ outcome = Blank("running")
  /\ calls = Blank({})
  /\ failed = Blank({})
  /\ wrote = Blank(FALSE)

\* no direct application of buscarCanaisParaJogo under way
BuscarOff ==
  /\ bPc = "off"
  /\ bJogo = NULL
  /\ bJogosUOL = <<>>
  /\ bJogosFutebolNaTV = <<>>
  /\ bRet = [threw |-> FALSE, canais |-> <<>>]

\* no direct application of another function under way
FnOff ==
  /\ fn = ""
  /\ fnPc = "off"
  /\ fnArgs = <<>>
  /\ fnRet = <<>>

\* one caller, calling again and again; with DISABLE_CACHE set the calls
\* start from the empty cache
Init ==
  /\ file \in InitialFiles
  /\ disableCache \in BOOLEAN
  /\ disableCache => file = [ok |-> TRUE, data |-> EmptyCache]
  /\ pc = [p \in Procs |-> IF p = 1 THEN "idle" ELSE "off"]
  /\ InitLocals
  /\ BuscarOff
  /\ FnOff

\* the call resolves to jogos
Return(p, jogos) ==
  /\ pc' = [pc EXCEPT ![p] = "done"]
  /\ ret' = [ret EXCEPT ![p] = jogos]
  /\ outcome' = [outcome EXCEPT ![p] = "returned"]

\* variant that stores a date only when there are games for it
SalvarSeHouverJogos(p, jogos, gravou) ==
  IF jogos = <<>> THEN UNCHANGED <<cache, file, wrote>>
  ELSE /\ cache' = [cache EXCEPT ![p] = CacheCom(cache[p], dia[p], jogos)]
       /\ file' = IF gravou THEN ArquivoGravado(CacheCom(cache[p], dia[p], jogos)) ELSE file
       /\ wrote' = [wrote EXCEPT ![p] = TRUE]

\* cache[diaFormatado] = jogos; salvarCache(cache), whose write succeeds or not
Salvar(p, jogos, gravou) ==
  /\ cache' = [cache EXCEPT ![p] = CacheCom(cache[p], dia[p], jogos)]
  /\ file' = IF gravou THEN ArquivoGravado(CacheCom(cache[p], dia[p], jogos)) ELSE file
  /\ wrote' = [wrote EXCEPT ![p] = TRUE]

\* lines 331-348 for the argument d: the date, the cache, the cache check
CallCom(p, d) ==
  /\ pc[p] \in {"idle", "done"}
  /\ LET diaFormatado == IF DiaValido(d) THEN d ELSE Hoje
         carregado == CarregarCache(file)
     IN /\ dia' = [dia EXCEPT ![p] = diaFormatado]
        /\ cache' = [cache EXCEPT ![p] = carregado]
        /\ loaded' = [loaded EXCEPT ![p] = carregado]
        /\ failed' = [failed EXCEPT ![p] = IF file.ok THEN {} ELSE {"read"}]
        /\ IF CacheHit(carregado, diaFormatado, disableCache)
           THEN Return(p, carregado[diaFormatado])
           ELSE /\ pc' = [pc EXCEPT ![p] = "fetchAPI"]
                /\ ret' = [ret EXCEPT ![p] = <<>>]
                /\ outcome' = [outcome EXCEPT ![p] = "running"]
  /\ fixtures' = [fixtures EXCEPT ![p] = <<>>]
  /\ fixturesFiltrados' = [fixturesFiltrados EXCEPT ![p] = <<>>]
  /\ jogosUOL' = [jogosUOL EXCEPT ![p] = <<>>]
  /\ jogosFutebolNaTV' = [jogosFutebolNaTV EXCEPT ![p] = <<>>]
  /\ calls' = [calls EXCEPT ![p] = {}]
  /\ wrote' = [wrote EXCEPT ![p] = FALSE]
  /\ UNCHANGED <<file, disableCache>>
  /\ UNCHANGED <<buscarVars, fnVars>>

\* getJogos(dia) for any of the arguments
Call(p) == \E d \in DiaInputs : CallCom(p, d)

\* variant of the catch at 355-359 that stores the empty list before returning
FetchAPIFailsGravando(p) ==
  /\ pc[p] = "fetchAPI"
  /\ calls' = [calls EXCEPT ![p] = @ \cup {"api"}]
  /\ failed' = [failed EXCEPT ![p] = @ \cup {"api"}]
  /\ Salvar(p, <<>>, TRUE)
  /\ Return(p, <<>>)
  /\ UNCHANGED <<disableCache, dia, loaded, fixtures, fixturesFiltrados, jogosUOL, jogosFutebolNaTV>>
  /\ UNCHANGED <<buscarVars, fnVars>>

\* lines 355-359: buscarJogosAPI rejects
FetchAPIFails(p) ==
  /\ pc[p] = "fetchAPI"
  /\ calls' = [calls EXCEPT ![p] = @ \cup {"api"}]
  /\ failed' = [failed EXCEPT ![p] = @ \cup {"api"}]
  /\ Return(p, <<>>)
  /\ UNCHANGED <<file, disableCache, dia, cache, loaded, fixtures, fixturesFiltrados, jogosUOL, jogosFutebolNaTV, wrote>>
  /\ UNCHANGED <<buscarVars, fnVars>>

\* lines 351-382: buscarJogosAPI resolves; the two filters
FetchAPIReturns(p) ==
  /\ pc[p] = "fetchAPI"
  /\ calls' = [calls EXCEPT ![p] = @ \cup {"api"}]
  /\ \E resposta \in ApiResponses, gravou \in BOOLEAN :
       \E filtrados \in {FiltrarFixtures(resposta, dia[p])} :
          /\ fixtures' = [fixtures EXCEPT ![p] = resposta]
          /\ fixturesFiltrados' = [fixturesFiltrados EXCEPT ![p] = filtrados]
          /\ IF resposta = <<>> \/ filtrados = <<>>
             THEN /\ Salvar(p, <<>>, gravou)
                  /\ failed' = [failed EXCEPT ![p] = IF gravou THEN @ ELSE @ \cup {"write"}]
                  /\ Return(p, <<>>)
             ELSE /\ gravou
                  /\ pc' = [pc EXCEPT ![p] = "fetchUOL"]
                  /\ UNCHANGED <<file, cache, wrote, failed, ret, outcome>>
  /\ UNCHANGED <<disableCache, dia, loaded, jogosUOL, jogosFutebolNaTV>>
  /\ UNCHANGED <<buscarVars, fnVars>>

\* variant of lines 391-397 without the try/catch: the rejection reaches the caller
FetchUOLFailsLancando(p) ==
  /\ pc[p] = "fetchUOL"
  /\ calls' = [calls EXCEPT ![p] = @ \cup {"uol"}]
  /\ failed' = [failed EXCEPT ![p] = @ \cup {"uol"}]
  /\ pc' = [pc EXCEPT ![p] = "done"]
  /\ outcome' = [outcome EXCEPT ![p] = "threw"]
  /\ UNCHANGED <<file, disableCache, dia, cache, loaded, fixtures, fixturesFiltrados, jogosUOL, jogosFutebolNaTV, ret, wrote>>
  /\ UNCHANGED <<buscarVars, fnVars>>

\* lines 394-397: getUOLData rejects; the catch puts the empty pool in its place
FetchUOLFails(p) ==
  /\ pc[p] = "fetchUOL"
  /\ calls' = [calls EXCEPT ![p] = @ \cup {"uol"}]
  /\ failed' = [failed EXCEPT ![p] = @ \cup {"uol"}]
  /\ jogosUOL' = [jogosUOL EXCEPT ![p] = <<>>]
  /\ pc' = [pc EXCEPT ![p] = "fetchFTV"]
  /\ UNCHANGED <<file, disableCache, dia, cache, loaded, fixtures, fixturesFiltrados, jogosFutebolNaTV, ret, outcome, wrote>>
  /\ UNCHANGED <<buscarVars, fnVars>>

\* lines 391-393: getUOLData resolves
FetchUOLReturns(p) ==
  /\ pc[p] = "fetchUOL"
  /\ calls' = [calls EXCEPT ![p] = @ \cup {"uol"}]
  /\ \E pool \in UOLPools : jogosUOL' = [jogosUOL EXCEPT ![p] = pool]
  /\ pc' = [pc EXCEPT ![p] = "fetchFTV"]
  /\ UNCHANGED <<file, disableCache, dia, cache, loaded, fixtures, fixturesFiltrados, jogosFutebolNaTV, ret, outcome, wrote, failed>>
  /\ UNCHANGED <<buscarVars, fnVars>>

\* lines 407-451 once jogosFutebolNaTV is known: reconcile, sort, save, return
Finish(p, pool, gravou) ==
  \E jogosOrdenados \in {MontarJogos(fixturesFiltrados[p], dia[p], jogosUOL[p], pool)} :
     /\ jogosFutebolNaTV' = [jogosFutebolNaTV EXCEPT ![p] = pool]
     /\ Salvar(p, jogosOrdenados, gravou)
     /\ Return(p, jogosOrdenados)

\* variant in which a failed Futebol na TV scrape ends the run with the empty list
FetchFTVFailsAbortando(p) ==
  /\ pc[p] = "fetchFTV"
  /\ calls' = [calls EXCEPT ![p] = @ \cup {"ftv"}]
  /\ failed' = [failed EXCEPT ![p] = @ \cup {"ftv"}]
  /\ Return(p, <<>>)
  /\ UNCHANGED <<file, disableCache, dia, cache, loaded, fixtures, fixturesFiltrados, jogosUOL, jogosFutebolNaTV, wrote>>
  /\ UNCHANGED <<buscarVars, fnVars>>

\* uol.ts 116-130: getFutebolNaTVData fails inside and resolves to []
FetchFTVFails(p) ==
  /\ pc[p] = "fetchFTV"
  /\ calls' = [calls EXCEPT ![p] = @ \cup {"ftv"}]
  /\ \E gravou \in BOOLEAN :
       /\ Finish(p, <<>>, gravou)
       /\ failed' = [failed EXCEPT ![p] = @ \cup {"ftv"} \cup (IF gravou THEN {} ELSE {"write"})]
  /\ UNCHANGED <<disableCache, dia, loaded, fixtures, fixturesFiltrados, jogosUOL>>
  /\ UNCHANGED <<buscarVars, fnVars>>

\* lines 399-401: getFutebolNaTVData resolves to the games it scraped
FetchFTVReturns(p) ==
  /\ pc[p] = "fetchFTV"
  /\ calls' = [calls EXCEPT ![p] = @ \cup {"ftv"}]
  /\ \E pool \in FTVPools, gravou \in BOOLEAN :
       /\ Finish(p, pool, gravou)
       /\ failed' = [failed EXCEPT ![p] = @ \cup (IF gravou THEN {} ELSE {"write"})]
  /\ UNCHANGED <<disableCache, dia, loaded, fixtures, fixturesFiltrados, jogosUOL>>
  /\ UNCHANGED <<buscarVars, fnVars>>

Next ==
  \E p \in Procs :
    \/ Call(p)
    \/ FetchAPIFails(p)
    \/ FetchAPIReturns(p)
    \/ FetchUOLFails(p)
    \/ FetchUOLReturns(p)
    \/ FetchFTVFails(p)
    \/ FetchFTVReturns(p)

Spec == Init /\ [][Next]_vars

---------------------------------------------------------------------------
(* buscarCanaisParaJogo applied directly to a fixture and two pools        *)

\* the longest pool handed to buscarCanaisParaJogo
MaxPool == 2

fSaoPauloCorinthians21h30 == [fSaoPauloCorinthians EXCEPT !.date = As(Dia1, 21, 30)]

\* the fixtures as converterAPIParaMatch hands them over
JogoInputs ==
  {ConverterAPIParaMatch(f, sDia1)[1] : f \in {fSantosGremio, fPSGLyon, fSaoPauloCorinthians21h30}}

tSaoPauloFC19h00 == Scraped(<<"S","a","o"," ","P","a","u","l","o"," ","F","C">>, nCorinthians, h19h00, <<sGLOBO>>)

RecordCatalog == {uSantosGremio, tSantosGremio, tPSGLyon, tSaoPauloFC, tSaoPauloFC19h00}

\* pools of up to MaxPool scraped records, none listed twice
PoolInputs ==
  UNION {{r \in [1..n -> RecordCatalog] : \A i, j \in 1..n : i # j => r[i] # r[j]} :
         n \in 0..MaxPool}

InitBuscar ==
  /\ file = [ok |-> TRUE, data |-> EmptyCache]
  /\ disableCache = FALSE
  /\ pc = Blank("off")
  /\ InitLocals
  /\ bPc = "ready"
  /\ bJogo \in JogoInputs
  /\ bJogosUOL \in PoolInputs
  /\ bJogosFutebolNaTV \in PoolInputs
  /\ bRet = [threw |-> FALSE, canais |-> <<>>]
  /\ FnOff

\* index.ts 225-329, one call
Buscar ==
  /\ bPc = "ready"
  /\ bRet' = BuscarCanaisParaJogo(bJogo, bJogosUOL, bJogosFutebolNaTV)
  /\ bPc' = "done"
  /\ UNCHANGED <<bJogo, bJogosUOL, bJogosFutebolNaTV>>
  /\ UNCHANGED <<getJogosVars, fnVars>>

NextBuscar == Buscar

SpecBuscar == InitBuscar /\ [][NextBuscar]_vars

---------------------------------------------------------------------------
(* Properties of getJogos, checked under Spec                              *)

\* the call of p went past both scrapers and built its list itself
NonCached(p) == pc[p] = "done" /\ "ftv" \in calls[p]

\* the list on disk under the key of p's call is the list p returned
Gravado(p) == file.ok /\ dia[p] \in DOMAIN file.data /\ file.data[dia[p]] = JsonList(ret[p])

\* the write of p's call went through
Gravou(p) == wrote[p] /\ "write" \notin failed[p]

\* jogo was converted from the fixture record f
DoFixture(jogo, f) ==
  /\ f.home # NULL /\ f.away # NULL
  /\ jogo.nomeTimes = <<f.home, f.away>>

\* where the fixtures source delivered the record jogo came from
Posicao(lista, jogo) == CHOOSE i \in 1..Len(lista) : DoFixture(jogo, lista[i])

\* the channels a converted fixture ends with: reconciliation, then the Premiere filter
CanaisFinais(jogo, poolUOL, poolFTV) ==
  FiltrarPremiere(BuscarCanaisParaJogo(jogo, poolUOL, poolFTV).canais)

\* C1: whenever the cache a call loaded holds an entry for its date key, an
\* empty list included, and caching is not disabled, the call returns that
\* entry, invokes no fetch collaborator and writes no cache.
C1_CacheHitShortCircuits ==
  \A p \in Procs :
    (pc[p] \notin {"off", "idle"} /\ dia[p] \in DOMAIN loaded[p] /\ ~disableCache)
      => /\ pc[p] = "done"
         /\ outcome[p] = "returned"
         /\ ret[p] = loaded[p][dia[p]]
         /\ calls[p] = {}
         /\ ~wrote[p]

\* a call answered from a populated cache entry
C1_Witness ==
  /\ pc[1] = "done" /\ ~disableCache
  /\ dia[1] \in DOMAIN loaded[1]
  /\ loaded[1][dia[1]] # <<>>
  /\ ret[1] = loaded[1][dia[1]]
  /\ calls[1] = {} /\ ~wrote[1]

\* C2: the step in which the fixtures fetch fails ends the call with the
\* empty list, leaves the cache (on disk and in memory) as it was and calls
\* no scraper; the next call for the same date goes to the fixtures fetch again.
C2_FixturesFailureRetryable ==
  [][\A p \in Procs :
       /\ ("api" \notin failed[p] /\ "api" \in failed'[p])
            => /\ pc'[p] = "done" /\ outcome'[p] = "returned"
               /\ ret'[p] = <<>>
               /\ file' = file /\ cache'[p] = cache[p] /\ ~wrote'[p]
               /\ calls'[p] = {"api"}
       /\ ("api" \in failed[p] /\ pc[p] = "done" /\ calls'[p] = {} /\ dia'[p] = dia[p])
            => pc'[p] = "fetchAPI"]_vars

\* a call that ended on a failed fixtures fetch, caching enabled
C2_Witness ==
  /\ pc[1] = "done" /\ ~disableCache
  /\ "api" \in failed[1]
  /\ ret[1] = <<>> /\ calls[1] = {"api"}
  /\ dia[1] \notin DOMAIN CarregarCache(file)

\* C3: a scraper that fails leaves the empty pool in its place and the run
\* goes on: the other scraper is invoked, and the list returned is the one
\* the surviving pool alone gives.
C3_ScraperFailureIsolated ==
  \A p \in Procs :
    /\ ("uol" \in failed[p] /\ pc[p] \in {"fetchFTV", "done"}) => jogosUOL[p] = <<>>
    /\ ("uol" \in failed[p] /\ pc[p] = "done")
         => /\ "ftv" \in calls[p]
            /\ outcome[p] = "returned"
            /\ ret[p] = MontarJogos(fixturesFiltrados[p], dia[p], <<>>, jogosFutebolNaTV[p])
    /\ "ftv" \in failed[p]
         => /\ pc[p] = "done"
            /\ "uol" \in calls[p]
            /\ outcome[p] = "returned"
            /\ jogosFutebolNaTV[p] = <<>>
            /\ ret[p] = MontarJogos(fixturesFiltrados[p], dia[p], jogosUOL[p], <<>>)

\* the UOL scraper failed and the run still returned games with the
\* channels of Futebol na TV
C3_Witness ==
  /\ pc[1] = "done"
  /\ "uol" \in failed[1] /\ "ftv" \notin failed[1]
  /\ jogosFutebolNaTV[1] # <<>>
  /\ ret[1] # <<>>

\* C4: in a run that was not answered from cache, a converted in-scope
\* fixture is in the returned list, and in the list written to the cache,
\* exactly when its final channel list is not empty; it carries that list,
\* and no returned fixture has an empty canais.
C4_AdmittedIffHasChannels ==
  \A p \in Procs :
    NonCached(p) =>
      /\ \A k \in 1..Len(ret[p]) : ret[p][k].canais # <<>>
      /\ \A i \in 1..Len(fixturesFiltrados[p]) :
           \A c \in Range(ConverterAPIParaMatch(fixturesFiltrados[p][i], dia[p])) :
              \A finais \in {CanaisFinais(c, jogosUOL[p], jogosFutebolNaTV[p])} :
                 /\ (\E k \in 1..Len(ret[p]) : DoFixture(ret[p][k], fixturesFiltrados[p][i]))
                      <=> finais # <<>>
                 /\ \A k \in 1..Len(ret[p]) :
                      DoFixture(ret[p][k], fixturesFiltrados[p][i]) => ret[p][k].canais = finais
      /\ Gravou(p) => Gravado(p)

\* two fixtures were converted, one ended with channels and one without,
\* and the list of one was returned and written
C4_Witness ==
  /\ NonCached(1) /\ Gravou(1)
  /\ Len(fixturesFiltrados[1]) = 2
  /\ \A i \in 1..2 : ConverterAPIParaMatch(fixturesFiltrados[1][i], dia[1]) # <<>>
  /\ Len(ret[1]) = 1
  /\ Len(file.data[dia[1]]) = 1

\* C5: the list a non-cached run returns, and the one it writes, is in
\* ascending order of kickoff, and fixtures with the same kickoff stay in
\* the order in which the fixtures source delivered them.
C5_SortedByKickoffStable ==
  \A p \in Procs :
    NonCached(p) =>
      /\ \A i, j \in 1..Len(ret[p]) :
           i < j => /\ GetTime(ret[p][i].date) <= GetTime(ret[p][j].date)
                    /\ GetTime(ret[p][i].date) = GetTime(ret[p][j].date)
                         => Posicao(fixtures[p], ret[p][i]) < Posicao(fixtures[p], ret[p][j])
      /\ Gravou(p) =>
           /\ file.ok /\ dia[p] \in DOMAIN file.data
           /\ [k \in 1..Len(file.data[dia[p]]) |-> file.data[dia[p]][k].nomeTimes]
                = [k \in 1..Len(ret[p]) |-> ret[p][k].nomeTimes]

\* the source delivered the later game first and the run returned the
\* earlier one first
C5_Witness ==
  /\ NonCached(1)
  /\ Len(ret[1]) = 2
  /\ GetTime(ret[1][1].date) < GetTime(ret[1][2].date)
  /\ Posicao(fixtures[1], ret[1][1]) > Posicao(fixtures[1], ret[1][2])

---------------------------------------------------------------------------
(* Properties of buscarCanaisParaJogo, checked under SpecBuscar            *)

\* the normalized channels of the records of a pool that match the fixture
CanaisQueCasamUOL(jogo, poolUOL) ==
  Flatten([k \in 1..Len(poolUOL) |->
     IF MatchesUOL(jogo, poolUOL[k]) THEN PrepareChannelName(poolUOL[k].canais) ELSE <<>>])
CanaisQueCasamFTV(jogo, poolFTV) ==
  Flatten([k \in 1..Len(poolFTV) |->
     IF MatchesFTV(jogo, poolFTV[k]) THEN PrepareChannelName(poolFTV[k].canais) ELSE <<>>])

\* C8: the channel list buscarCanaisParaJogo returns is the union, in
\* first-seen order and without duplicates, of the normalized channel lists
\* of the records of both pools that match the fixture by names and time;
\* Santos v Gremio (circumflex e) at 21h30 with one matching record carrying
\* SPORTV and PREMIERE FC gives SporTV, Premiere.
C8_CanaisAreOrderedUnion ==
  bPc = "done" =>
    /\ ~bRet.threw
    /\ bRet.canais = Dedupe(CanaisQueCasamUOL(bJogo, bJogosUOL)
                            \o CanaisQueCasamFTV(bJogo, bJogosFutebolNaTV))
    /\ \A i, j \in 1..Len(bRet.canais) : i # j => bRet.canais[i] # bRet.canais[j]
    /\ (/\ bJogo.nomeTimes = <<nSantos, nGremio>> /\ bJogo.hora = h21h30
        /\ bJogosUOL = <<uSantosGremio>> /\ bJogosFutebolNaTV = <<>>)
         => bRet.canais = << <<"S","p","o","r","T","V">>, <<"P","r","e","m","i","e","r","e">> >>

\* Santos v Gremio with a matching record in each pool, and a record of
\* another game: three channels, Premiere once
C8_Witness ==
  /\ bPc = "done"
  /\ bJogo.nomeTimes = <<nSantos, nGremio>>
  /\ bJogosUOL = <<uSantosGremio, tPSGLyon>>
  /\ bJogosFutebolNaTV = <<tSantosGremio>>
  /\ bRet.canais = << <<"S","p","o","r","T","V">>, <<"P","r","e","m","i","e","r","e">>,
                      <<"P","r","e","m","i","e","r","e"," ","2">> >>

\* the leading hour component of a time string: the digits before the h
HoraCheia(hora) == ParseInt(NormalizarHora(hora))

\* the time comparison as stated: the same normalized string, or leading
\* hours at most 1 apart
HorasCasam(horaA, horaB) ==
  \/ NormalizarHora(horaA) = NormalizarHora(horaB)
  \/ /\ HoraCheia(horaA) - HoraCheia(horaB) <= 1
     /\ HoraCheia(horaB) - HoraCheia(horaA) <= 1

\* the only record of the pools has the fixture's teams: it gives channels
\* exactly when the two times match as stated
ContribuiSeHorasCasam(record, nomesCasam) ==
  nomesCasam => ((bRet.canais # <<>>) <=> HorasCasam(record.hora, bJogo.hora))

\* C9: two kickoff times match exactly when their whitespace-stripped,
\* lower-cased forms are identical or their leading hours differ by at most
\* 1, so that a fixture at 21h30 takes the channels of a same-teams record
\* at 21h00 and not those of one at 19h00.
C9_HourToleranceMatch ==
  bPc = "done" =>
    /\ (bJogosUOL = <<>> /\ Len(bJogosFutebolNaTV) = 1)
         => ContribuiSeHorasCasam(bJogosFutebolNaTV[1],
              /\ MatchNome(NomeFTV(bJogosFutebolNaTV[1].nomeTimes[1]), HomeNormalizado(bJogo))
              /\ MatchNome(NomeFTV(bJogosFutebolNaTV[1].nomeTimes[2]), AwayNormalizado(bJogo)))
    /\ (bJogosFutebolNaTV = <<>> /\ Len(bJogosUOL) = 1)
         => ContribuiSeHorasCasam(bJogosUOL[1],
              /\ MatchNome(NomeUOL(bJogosUOL[1].nomeTimes[1]), HomeNormalizado(bJogo))
              /\ MatchNome(NomeUOL(bJogosUOL[1].nomeTimes[2]), AwayNormalizado(bJogo)))

\* C10: a scraped record matches a fixture in the UOL pool exactly when it
\* matches it in the Futebol na TV pool, and swapping the two pools gives
\* the same set of channels.
C10_PoolsInterchangeable ==
  bPc = "done" =>
    /\ \A r \in Range(bJogosUOL) \cup Range(bJogosFutebolNaTV) :
         MatchesUOL(bJogo, r) <=> MatchesFTV(bJogo, r)
    /\ Range(bRet.canais)
         = Range(BuscarCanaisParaJogo(bJogo, bJogosFutebolNaTV, bJogosUOL).canais)


---------------------------------------------------------------------------
(* The other functions applied directly: prepareChannelName, the channel-  *)
(* precedence filter of getJogos, parseDataHoraBR and the games loop of    *)
(* getUOLData, each on inputs drawn from a bounded set.                    *)

\* the longest raw channel list handed to prepareChannelName
MaxCanais == 3

\* raw channel lists of up to MaxCanais entries, none listed twice, of broadcast
\* names as the two sources spell them
RawChannelLists ==
  LET catalog ==
      { sPREMIERE,
        <<"P","R","E","M","I","E","R","E"," ","3">>,                              \* PREMIERE 3
        sSPORTV,
        sPREMIERE_FC,
        <<"p","r","e","m","i","e","r","e"," ","f","c">>,                          \* premiere fc
        <<"p","r","e","m","i","e","r","e"," ","2">>,                              \* premiere 2
        <<"P","R","E","M","I","E","R","E"," ","2"," ","P","R","E","M","I","E","R","E"," ","3">>,  \* PREMIERE 2 PREMIERE 3
        sDISNEY_PREMIUM,
        <<"S","t","a","r","+"," ","e"," ","d","i","s","n","e","y","+"," ","p","r","e","m","i","u","m">>,  \* Star+ e disney+ premium
        <<"G","L","O","B","O"," ","S","P",","," ","M","S",","," ","B","A"," ","S","P",","," ","M","S",","," ","B","A">>,  \* GLOBO SP, MS, BA SP, MS, BA
        <<"G","l","o","b","o"," ","R","J",","," ","S","P">>,                      \* Globo RJ, SP
        <<"T","V"," ","G","L","O","B","O"," ","M","G",","," ","R","J">>,          \* TV GLOBO MG, RJ
        <<" ","E","S","P","N"," ">> }                                             \* " ESPN "
  IN UNION {{r \in [1..n -> catalog] : \A i, j \in 1..n : i # j => r[i] # r[j]} :
            n \in 0..MaxCanais}

\* the matches getUOLData finds in the page, up to MaxPool of them, none listed
\* twice: [date, hour, broadcast, home, away]; a team is [found, name], found
\* telling whether teams[match.teams.home] is there at all
UOLMatchLists ==
  LET hoje == <<"2","0","2","6","-","1","1","-","0","5">>
      time(nome) == [found |-> TRUE, name |-> nome]
      semTime == [found |-> FALSE, name |-> NULL]
      catalog ==
        { [date |-> hoje, hour |-> h21h30, broadcast |-> <<sSPORTV, sPREMIERE_FC>>,
           home |-> time(nSantos), away |-> time(nGremio)],
          [date |-> hoje, hour |-> h19h00, broadcast |-> <<sGLOBO>>,
           home |-> time(nCorinthians), away |-> time(nSantos)],
          \* no kickoff time yet
          [date |-> hoje, hour |-> <<"A"," ","d","e","f","i","n","i","r">>, broadcast |-> <<cESPN>>,
           home |-> time(nGremio), away |-> time(nCorinthians)],
          [date |-> hoje, hour |-> NULL, broadcast |-> <<cESPN>>,
           home |-> time(nCorinthians), away |-> time(nGremio)],
          \* a team without a name, an unknown team, no broadcast, another day
          [date |-> hoje, hour |-> h21h30, broadcast |-> <<cESPN>>,
           home |-> time(NULL), away |-> time(nGremio)],
          [date |-> hoje, hour |-> h21h30, broadcast |-> <<cESPN>>,
           home |-> semTime, away |-> time(nSantos)],
          [date |-> hoje, hour |-> h19h00, broadcast |-> <<>>,
           home |-> time(nSantos), away |-> time(nCorinthians)],
          [date |-> <<"2","0","2","6","-","1","1","-","0","6">>, hour |-> h19h00, broadcast |-> <<sSPORTV>>,
           home |-> time(nGremio), away |-> time(nSantos)] }
  IN UNION {{r \in [1..n -> catalog] : \A i, j \in 1..n : i # j => r[i] # r[j]} :
            n \in 0..MaxPool}

\* part_003 48-86: the games loop of getUOLData and the catch around it;
\* [threw |-> the call rejects, games |-> the list it resolves to]
GetUOLData(matches, diaFormatado, dataApi) ==
  LET kept == SelectSeq(matches, LAMBDA m :
                /\ m.date # NULL /\ m.date = dataApi
                /\ m.broadcast # NULL /\ m.broadcast # <<>>
                /\ m.home.found /\ m.away.found)
  IN IF \E k \in 1..Len(kept) : ParseDataHoraBR(diaFormatado, kept[k].hour).threw
     THEN [threw |-> TRUE, games |-> <<>>]
     ELSE [threw |-> FALSE,
           games |-> [k \in 1..Len(kept) |->
                        [campeonato |-> "scraped", hora |-> kept[k].hour,
                         nomeTimes |-> <<kept[k].home.name, kept[k].away.name>>,
                         canais |-> kept[k].broadcast,
                         date |-> ParseDataHoraBR(diaFormatado, kept[k].hour).date]]]

\* hour strings, of the shape parseDataHoraBR reads and of other shapes
HoraInputs ==
  { h21h30, h19h00,
    <<"1","9","h">>, <<"9","h","5">>, <<"0","h","0","0">>, <<"2","3","h","5","9">>,
    <<"2","1","H","3","0">>, <<"2","5","h","0","0">>, <<"2","1","h","7","5">>,
    <<>>, <<"2","1",":","3","0">>, <<"2","1","3","0">>, <<"h","3","0">>,
    <<"1","2","3","h","0","0">>, <<"2","1","h","3","0","0">>, <<"2","1","h","3","a">>,
    <<"2","1","h","h">>, <<" ","2","1","h","3","0">>, <<"2","1","h","3","0"," ">>,
    <<"x","2","1","h","3","0">>, <<"A"," ","d","e","f","i","n","i","r">> }

InitFn ==
  /\ file = [ok |-> TRUE, data |-> EmptyCache]
  /\ disableCache = FALSE
  /\ pc = Blank("off")
  /\ InitLocals
  /\ BuscarOff
  /\ fnPc = "ready"
  /\ fnRet = <<>>
  /\ \/ /\ fn = "prepareChannelName"
        /\ fnArgs \in RawChannelLists
     \/ /\ fn = "filtrarPremiere"
        \* the list buscarCanaisParaJogo returned: names prepareChannelName produced
        /\ fnArgs \in {PrepareChannelName(l) : l \in RawChannelLists}
     \/ /\ fn = "parseDataHoraBR"
        /\ fnArgs \in [dataStr : {sDia1, sDia2, <<"3","1","-","1","2","-","2","0","2","6">>,
                                  <<"2","9","-","0","2","-","2","0","2","8">>},
                       horaStr : HoraInputs]
     \/ /\ fn = "getUOLData"
        /\ fnArgs \in [matches : UOLMatchLists, diaFormatado : {sDia1},
                       dataApi : {<<"2","0","2","6","-","1","1","-","0","5">>}]

FnReturn(nome, valor) ==
  /\ fnPc = "ready"
  /\ fn = nome
  /\ fnRet' = valor
  /\ fnPc' = "done"
  /\ UNCHANGED <<fn, fnArgs, getJogosVars, buscarVars>>

\* index.ts 458-531, one call
Preparar == FnReturn("prepareChannelName", PrepareChannelName(fnArgs))

\* index.ts 416-429: allCanais for the canais buscarCanaisParaJogo returned
FiltrarCanais == FnReturn("filtrarPremiere", FiltrarPremiere(fnArgs))

\* part_003 48-86, one call on the matches of the page
Raspar ==
  FnReturn("getUOLData", GetUOLData(fnArgs.matches, fnArgs.diaFormatado, fnArgs.dataApi))

\* index.ts 38-50, one call
Parsear == FnReturn("parseDataHoraBR", ParseDataHoraBR(fnArgs.dataStr, fnArgs.horaStr))

NextFn ==
  \/ Parsear
  \/ Preparar
  \/ FiltrarCanais
  \/ Raspar

SpecFn == InitFn /\ [][NextFn]_vars

---------------------------------------------------------------------------
(* Claims about the channel-precedence filter and prepareChannelName       *)

\* the application of the named function has returned
FnDone(nome) == fn = nome /\ fnPc = "done"

\* the brand name in any letter case, then nothing but what `resto` allows
MarcaPremiere(c) ==
  Len(c) >= 8 /\ ToLowerCase(SubSeq(c, 1, 8)) = <<"p","r","e","m","i","e","r","e">>

\* "Premiere" followed by whitespace and digits
PremiereNumerado(c) ==
  /\ MarcaPremiere(c)
  /\ \E k \in 9..(Len(c) - 1) :
       /\ \A j \in 9..k : c[j] = " "
       /\ \A j \in (k + 1)..Len(c) : c[j] \in {"0","1","2","3","4","5","6","7","8","9"}

\* the bare brand name
PremiereSemNumero(c) == MarcaPremiere(c) /\ \A j \in 9..Len(c) : c[j] = " "

sPremiere3 == <<"P","r","e","m","i","e","r","e"," ","3">>

\* C11: after the channel-precedence filter, a list that holds a numbered
\* Premiere entry keeps no bare Premiere entry and keeps every other entry,
\* numbered ones included, unchanged and in order; a list with no numbered
\* entry is left untouched.
C11_PremierePrecedence ==
  FnDone("filtrarPremiere") =>
    IF \E i \in 1..Len(fnArgs) : PremiereNumerado(fnArgs[i])
    THEN /\ \A i \in 1..Len(fnRet) : ~PremiereSemNumero(fnRet[i])
         /\ fnRet = SelectSeq(fnArgs, LAMBDA c : ~PremiereSemNumero(c))
    ELSE fnRet = fnArgs

\* the example of the specification: Premiere, Premiere 3, SporTV
C11_Witness ==
  /\ FnDone("filtrarPremiere")
  /\ fnArgs = <<sPremiere, sPremiere3, sSporTV>>
  /\ fnRet = <<sPremiere3, sSporTV>>

\* C12: prepareChannelName is idempotent and duplicate-free: applied to
\* its own output it returns that output, and no name occurs twice in it.
C12_PrepareIdempotent ==
  FnDone("prepareChannelName") =>
    /\ PrepareChannelName(fnRet) = fnRet
    /\ \A i, j \in 1..Len(fnRet) : i # j => fnRet[i] # fnRet[j]

\* the words of a raw entry: the runs of characters between blanks and commas
RECURSIVE Palavras(_, _)
Palavras(s, atual) ==
  IF s = <<>> THEN (IF atual = <<>> THEN <<>> ELSE <<atual>>)
  ELSE IF Head(s) \in {" ", ","}
       THEN (IF atual = <<>> THEN <<>> ELSE <<atual>>) \o Palavras(Tail(s), <<>>)
       ELSE Palavras(Tail(s), Append(atual, Head(s)))

\* the region codes: the abbreviations of the Brazilian states (estados)
Estados ==
  { <<"A","C">>, <<"A","L">>, <<"A","M">>, <<"A","P">>, <<"B","A">>, <<"C","E">>, <<"D","F">>,
    <<"E","S">>, <<"G","O">>, <<"M","A">>, <<"M","G">>, <<"M","S">>, <<"M","T">>, <<"P","A">>,
    <<"P","B">>, <<"P","E">>, <<"P","I">>, <<"P","R">>, <<"R","J">>, <<"R","N">>, <<"R","O">>,
    <<"R","R">>, <<"R","S">>, <<"S","C">>, <<"S","E">>, <<"S","P">>, <<"T","O">> }

\* the distinct region codes among the words of an entry, in first-occurrence order
RECURSIVE Siglas(_, _)
Siglas(palavras, vistas) ==
  IF palavras = <<>> THEN <<>>
  ELSE IF Head(palavras) \in Estados \ vistas
       THEN <<Head(palavras)>> \o Siglas(Tail(palavras), vistas \cup {Head(palavras)})
       ELSE Siglas(Tail(palavras), vistas)

\* a raw entry that names Globo, in any letter case, with a comma-separated list of region codes
GloboComSiglas(c) ==
  /\ \E i \in 1..(Len(c) - 4) : ToUpperCase(SubSeq(c, i, i + 4)) = <<"G","L","O","B","O">>
  /\ \E i \in 1..Len(c) : c[i] = ","
  /\ Siglas(Palavras(c, <<>>), {}) # <<>>

GloboDe(siglas) == [k \in 1..Len(siglas) |-> <<"G","l","o","b","o"," ">> \o siglas[k]]

\* C13: for a raw entry that names Globo with a comma-separated list of
\* two-letter region codes, prepareChannelName emits exactly one
\* "Globo <code>" per distinct region code, in first-occurrence order, and
\* not the entry itself.
C13_GloboRegionExpansion ==
  FnDone("prepareChannelName") /\ Len(fnArgs) = 1 /\ GloboComSiglas(fnArgs[1]) =>
    fnRet = GloboDe(Siglas(Palavras(fnArgs[1], <<>>), {}))

\* where the text `marca` first occurs in `c`, whatever the letter case; 0 when it does not
OndeMarca(c, marca) ==
  LET em == {i \in 1..(Len(c) - Len(marca) + 1) :
               ToUpperCase(SubSeq(c, i, i + Len(marca) - 1)) = marca}
  IN IF em = {} THEN 0 ELSE CHOOSE i \in em : \A j \in em : i <= j

\* the entry with its brand token, found at position i, written as Premiere
ComPremiere(c, i) == SubSeq(c, 1, i - 1) \o sPremiere \o SubSeq(c, i + 8, Len(c))

\* what the claim expects of one trimmed raw entry
EsperadoC14(c) ==
  IF ToUpperCase(c) = sPREMIERE_FC THEN <<sPremiere>>
  ELSE IF OndeMarca(c, sDISNEY_PREMIUM) # 0 THEN <<sDisney>>
  ELSE <<ComPremiere(c, OndeMarca(c, sPREMIERE))>>

\* C14: brand detection is case-insensitive and the output canonical:
\* PREMIERE FC in any letter case yields Premiere, an entry containing
\* DISNEY+ PREMIUM yields Disney+, and any other entry containing the
\* Premiere brand in any letter case comes out with the brand written as
\* Premiere and the text around it unchanged.
C14_BrandCanonicalCase ==
  FnDone("prepareChannelName") /\ Len(fnArgs) = 1 =>
    \A c \in {Trim(fnArgs[1])} :
      (OndeMarca(c, sPREMIERE) # 0 \/ OndeMarca(c, sDISNEY_PREMIUM) # 0) => fnRet = EsperadoC14(c)

---------------------------------------------------------------------------
(* Two calls of getJogos in flight at once, one per date.  Each runs the   *)
(* steps of getJogos once; the steps of the two interleave at the awaits.  *)

\* the longest fixtures list the API returns to a call that runs beside another
MaxRespostaConcorrente == 1

InitConcorrente ==
  /\ file \in InitialFiles
  /\ disableCache \in BOOLEAN
  /\ disableCache => file = [ok |-> TRUE, data |-> EmptyCache]
  /\ pc = Blank("idle")
  /\ InitLocals
  /\ BuscarOff
  /\ FnOff

\* one step of call p, the first call asking for sDia1 and the second for sDia2; the API answers with at most MaxRespostaConcorrente fixtures
PassoConcorrente(p) ==
  \/ pc[p] = "idle" /\ CallCom(p, IF p = 1 THEN sDia1 ELSE sDia2)
  \/ FetchAPIFails(p)
  \/ FetchAPIReturns(p) /\ Len(fixtures'[p]) <= MaxRespostaConcorrente
  \/ FetchUOLFails(p)
  \/ FetchUOLReturns(p)
  \/ FetchFTVFails(p)
  \/ FetchFTVReturns(p)

SpecConcorrente == InitConcorrente /\ [][\E p \in Procs : PassoConcorrente(p)]_vars

\* call p has completed and its salvarCache wrote the file
Salvou(p) == pc[p] = "done" /\ wrote[p] /\ "write" \notin failed[p]

\* C15: two runs for different dates that interleave are safe: once both
\* have completed and saved, the cache file holds the result of both.
C15_ConcurrentDatesSafe ==
  (dia[1] # dia[2] /\ \A p \in Procs : Salvou(p)) =>
     \A p \in Procs : dia[p] \in DOMAIN file.data /\ file.data[dia[p]] = JsonList(ret[p])

---------------------------------------------------------------------------
(* Claims about the cache file, the scraped records and parseDataHoraBR    *)

\* the step is a call of p that the cache answers, right after a run of p
\* for the same date that returned ret[p] and saved it
HitAposGravar(p) ==
  /\ Salvou(p)
  /\ pc'[p] = "done" /\ calls'[p] = {} /\ ~wrote'[p]
  /\ dia'[p] = dia[p]
  /\ dia[p] \in DOMAIN loaded'[p]

\* C16: the cache round-trips fixtures exactly: the list a cache-hit call
\* returns equals, field for field and with the kickoff as a Date, the
\* list returned by the earlier run that wrote the entry.
C16_CacheRoundTrip ==
  [][\A p \in Procs : HitAposGravar(p) => ret'[p] = ret[p]]_vars

\* a match of the UOL page with nothing missing or malformed
BemFormado(m, args) ==
  /\ m.date = args.dataApi
  /\ m.broadcast # <<>>
  /\ m.home.found /\ m.away.found
  /\ m.home.name # NULL /\ m.away.name # NULL
  /\ \E h \in {0, 1, 2} : \E mi \in {0, 3} :
       m.hour = <<DigitChars[h + 1], DigitChars[(IF h = 2 THEN 1 ELSE 9) + 1], "h",
                  DigitChars[mi + 1], "0">>

\* getJogos 391-397: the pool the reconciliation reads after the call of getUOLData
PoolDe(res) == IF res.threw THEN <<>> ELSE res.games

\* C17: a malformed or incomplete scraped record causes only that record
\* to be skipped: the well-formed records of the same source still reach
\* the reconciliation with their channels, and no fixture is dropped for it.
C17_BadRecordSkippedAlone ==
  FnDone("getUOLData") =>
    /\ \A k \in 1..Len(fnArgs.matches) :
         BemFormado(fnArgs.matches[k], fnArgs) =>
           \E j \in 1..Len(PoolDe(fnRet)) :
              /\ PoolDe(fnRet)[j].nomeTimes = <<fnArgs.matches[k].home.name, fnArgs.matches[k].away.name>>
              /\ PoolDe(fnRet)[j].canais = fnArgs.matches[k].broadcast
    /\ \A jogo \in JogoInputs : ~BuscarCanaisParaJogo(jogo, PoolDe(fnRet), <<>>).threw

\* the number one or two decimal digits write
Valor(s) ==
  IF Len(s) = 1 THEN PosIn(s[1], DigitChars) - 1
  ELSE 10 * (PosIn(s[1], DigitChars) - 1) + (PosIn(s[2], DigitChars) - 1)

\* the ways to read s as <hours>h<minutes>?: one or two digits, the letter h
\* in either case, then up to two digits: the pairs <<hours, minutes>>
Leituras(s) ==
  {<<Valor(SubSeq(s, 1, nh)), IF nm = 0 THEN 0 ELSE Valor(SubSeq(s, nh + 2, nh + 1 + nm))>> :
     <<nh, nm>> \in {par \in {1, 2} \X {0, 1, 2} :
                      /\ Len(s) = par[1] + 1 + par[2]
                      /\ s[par[1] + 1] \in {"h", "H"}
                      /\ \A i \in (1..par[1]) \cup ((par[1] + 2)..Len(s)) : PosIn(s[i], DigitChars) # 0}}

\* C18: parseDataHoraBR raises its parse error for exactly the hour
\* strings that are not of the shape <hours>h<minutes>?, and for a
\* dd-mm-yyyy date and a well-shaped hour string with hours 0..23 and
\* minutes 0..59 returns the local date-time with that year, month, day,
\* hour and minute, the minutes being 0 when absent.
C18_ParseDataHoraBR ==
  FnDone("parseDataHoraBR") =>
    /\ fnRet.threw <=> Leituras(fnArgs.horaStr) = {}
    /\ \A hm \in Leituras(fnArgs.horaStr) :
         (hm[1] <= 23 /\ hm[2] <= 59) =>
            /\ fnRet.date.tipo = "Date"
            /\ fnRet.date.dia = Valor(SubSeq(fnArgs.dataStr, 1, 2))
            /\ fnRet.date.mes = Valor(SubSeq(fnArgs.dataStr, 4, 5))
            /\ fnRet.date.ano = 100 * Valor(SubSeq(fnArgs.dataStr, 7, 8)) + Valor(SubSeq(fnArgs.dataStr, 9, 10))
            /\ fnRet.date.h = hm[1]
            /\ fnRet.date.min = hm[2]

\* 29-02-2028 at 19h: no minutes in the string, 19:00 on that day
C18_Witness ==
  /\ FnDone("parseDataHoraBR")
  /\ fnArgs.dataStr = <<"2","9","-","0","2","-","2","0","2","8">>
  /\ fnArgs.horaStr = <<"1","9","h">>
  /\ fnRet = [threw |-> FALSE,
              date |-> [tipo |-> "Date", ano |-> 2028, mes |-> 2, dia |-> 29, h |-> 19, min |-> 0]]

---------------------------------------------------------------------------
(* Claims about the runs of getJogos that end before the scrapers, and     *)
(* about the second scan of the UOL pool                                   *)

\* the record of the fixtures source is played on the day d ("dd-mm-yyyy")
\* and is in scope: a Brazilian league or one of the listed league ids
Sobrevive(f, d) ==
  /\ f.date.dia = Valor(SubSeq(d, 1, 2))
  /\ f.date.mes = Valor(SubSeq(d, 4, 5))
  /\ f.date.ano = 100 * Valor(SubSeq(d, 7, 8)) + Valor(SubSeq(d, 9, 10))
  /\ \/ f.league.country = "Brazil"
     \/ f.league.id \in {71, 72, 2, 525, 140, 61, 40, 408}

\* C19: when the fixtures fetch succeeds and no fixture survives the date
\* re-check and the in-scope filter, the call stores the empty list under
\* its date key, returns the empty list and invokes neither scraper; a
\* scraper is invoked only in a run where an in-scope fixture remains.
C19_NoSurvivorNoScrape ==
  \A p \in Procs :
    /\ ("api" \in calls[p] \ failed[p]
        /\ ~\E i \in 1..Len(fixtures[p]) : Sobrevive(fixtures[p][i], dia[p]))
         => /\ pc[p] = "done" /\ outcome[p] = "returned" /\ ret[p] = <<>>
            /\ calls[p] = {"api"}
            /\ wrote[p]
            /\ dia[p] \in DOMAIN cache[p] /\ cache[p][dia[p]] = <<>>
            /\ "write" \notin failed[p] =>
                 (file.ok /\ dia[p] \in DOMAIN file.data /\ file.data[dia[p]] = <<>>)
    /\ calls[p] \cap {"uol", "ftv"} # {}
         => \E i \in 1..Len(fixtures[p]) : Sobrevive(fixtures[p][i], dia[p])

\* the source delivered a Brazilian game of the next day and an English game
\* of the day: nothing remains, the empty list is stored, no scraper runs
C19_Witness ==
  /\ pc[1] = "done"
  /\ fixtures[1] = <<fFlamengoVasco, fArsenalChelsea>>
  /\ calls[1] = {"api"}
  /\ ret[1] = <<>>
  /\ wrote[1]
  /\ file.ok /\ dia[1] \in DOMAIN file.data /\ file.data[dia[1]] = <<>>

\* C20: the second scan of the UOL pool is redundant: what
\* buscarCanaisParaJogo returns, contents and order, is what one scan of the
\* UOL pool followed by one scan of the Futebol na TV pool collects.
C20_SecondUOLScanRedundant ==
  bPc = "done" =>
    bRet = ScanFTV(ScanUOL([threw |-> FALSE, canais |-> <<>>], Normalizado(bJogo), bJogosUOL),
                   Normalizado(bJogo), bJogosFutebolNaTV)

\* a UOL record matched the fixture, so the second scan met it again
C20_Witness ==
  /\ bPc = "done"
  /\ \E k \in 1..Len(bJogosUOL) : MatchesUOL(bJogo, bJogosUOL[k])
  /\ \E k \in 1..Len(bJogosFutebolNaTV) : MatchesFTV(bJogo, bJogosFutebolNaTV[k])
  /\ Len(bRet.canais) >= 2

---------------------------------------------------------------------------
(* Claim about which runs of getJogos leave the cache unwritten            *)

\* the run of p fetched the fixtures, with or without success, and has ended
FetchSucedeu(p) == pc[p] = "done" /\ "api" \in calls[p] \ failed[p]
FetchFalhou(p) == pc[p] = "done" /\ "api" \in calls[p] \cap failed[p]

\* C21: only a fixtures-fetch failure leaves the cache unwritten: a run
\* whose fixtures fetch succeeded stores what it returns under its date,
\* also the empty list left when both scrapers failed, and once the entry is
\* on disk every call for that date, with caching enabled, returns the
\* stored list without invoking a scraper.
C21_OnlyFetchFailureSkipsCache ==
  /\ [](\A p \in Procs :
          /\ FetchSucedeu(p) =>
               /\ wrote[p]
               /\ dia[p] \in DOMAIN cache[p] /\ cache[p][dia[p]] = ret[p]
               /\ "write" \notin failed[p] => Gravado(p)
          /\ FetchFalhou(p) => ~wrote[p])
  /\ [][\A p \in Procs :
          (/\ ~disableCache
           /\ pc[p] = "done" /\ file.ok /\ dia[p] \in DOMAIN file.data
           /\ dia'[p] = dia[p])
            => /\ pc'[p] = "done"
               /\ calls'[p] = {}
               /\ ret'[p] = file.data[dia[p]]
               /\ file' = file]_vars

\* both scrapers failed, the run returned the empty list and stored it
C21_Witness ==
  /\ FetchSucedeu(1)
  /\ {"uol", "ftv"} \subseteq failed[1]
  /\ ret[1] = <<>>
  /\ Gravado(1)
====
